---- MODULE Spec2Model ----
(***************************************************************************)
(* SensorAbsloc (rtslam/sensorAbsloc.hpp): fusion of an absolute-position  *)
(* sensor into the pose of a robot kept by an EKF.                         *)
(*                                                                         *)
(* Numbers.  Means (readings, measurement, expectation, innovation,        *)
(* origin, position) are exact rationals <<n, d>> with d > 0 in lowest     *)
(* terms; <<0, 0>> is the IEEE NaN that 0.0/0.0 produces.  Covariances,    *)
(* Jacobians, quaternions and lever-arms stay integers: nothing in the     *)
(* code divides them.  Vectors are tuples, matrices tuples of rows; axis   *)
(* i of the code (0-based) is index i+1 here.                              *)
(***************************************************************************)
EXTENDS Integers, Sequences, FiniteSets, TLC

\* ------------------------------------------------------------ bounds
\* total number of process calls explored
MaxCalls == 3
\* longest window queryAvailableRaws hands to init
MaxWin == 3

\* initial value of min_var in init (1e3)
MinVarInit == 1000

\* ------------------------------------------------------------ scalars
Abs(n) == IF n < 0 THEN -n ELSE n

RECURSIVE GCD(_, _)
GCD(a, b) == IF b = 0 THEN a ELSE GCD(b, a % b)

NaN == <<0, 0>>
IsNaN(a) == a[2] = 0
R(i) == <<i, 1>>

\* n/d in lowest terms, d # 0
Norm(n, d) ==
  LET g == GCD(Abs(n), Abs(d))
      s == IF d < 0 THEN -1 ELSE 1
  IN  <<(s * n) \div g, (s * d) \div g>>

\* IEEE double arithmetic on the values of the model: exact, NaN absorbing
RAdd(a, b) == IF IsNaN(a) \/ IsNaN(b) THEN NaN ELSE Norm(a[1] * b[2] + b[1] * a[2], a[2] * b[2])
RSub(a, b) == IF IsNaN(a) \/ IsNaN(b) THEN NaN ELSE Norm(a[1] * b[2] - b[1] * a[2], a[2] * b[2])
RNeg(a) == IF IsNaN(a) THEN NaN ELSE <<-a[1], a[2]>>

sqr(x) == x * x

\* ------------------------------------------------------------ vectors, matrices
zero_vec3 == <<R(0), R(0), R(0)>>
ZeroVec(n) == [i \in 1..n |-> R(0)]
ZeroMat(n, m) == [i \in 1..n |-> [j \in 1..m |-> 0]]
identity_mat3 == [i \in 1..3 |-> [j \in 1..3 |-> IF i = j THEN 1 ELSE 0]]

RVec(v) == [i \in 1..Len(v) |-> R(v[i])]
VAdd(a, b) == [i \in 1..Len(a) |-> RAdd(a[i], b[i])]
VSub(a, b) == [i \in 1..Len(a) |-> RSub(a[i], b[i])]

RECURSIVE SumTo(_, _)
SumTo(f, n) == IF n = 0 THEN 0 ELSE f[n] + SumTo(f, n - 1)

Transpose(A) == [j \in 1..Len(A[1]) |-> [i \in 1..Len(A) |-> A[i][j]]]
MatMul(A, B) ==
  [i \in 1..Len(A) |-> [j \in 1..Len(B[1]) |->
     SumTo([k \in 1..Len(B) |-> A[i][k] * B[k][j]], Len(B))]]
MatAdd(A, B) == [i \in 1..Len(A) |-> [j \in 1..Len(A[1]) |-> A[i][j] + B[i][j]]]
MatNeg(A) == [i \in 1..Len(A) |-> [j \in 1..Len(A[1]) |-> -A[i][j]]]
SubMat(A, r0, r1, c0, c1) ==
  [i \in 1..(r1 - r0 + 1) |-> [j \in 1..(c1 - c0 + 1) |-> A[r0 + i - 1][c0 + j - 1]]]
\* A with its block starting at (r0, c0) replaced by B
SetBlock(A, r0, c0, B) ==
  [i \in 1..Len(A) |-> [j \in 1..Len(A[1]) |->
     IF i >= r0 /\ i < r0 + Len(B) /\ j >= c0 /\ j < c0 + Len(B[1])
     THEN B[i - r0 + 1][j - c0 + 1] ELSE A[i][j]]]
HCat(A, B) == [i \in 1..Len(A) |-> A[i] \o B[i]]

\* ublasExtra::prod_JPJt(P, J) = J P J^T
prod_JPJt(P, J) == MatMul(MatMul(J, P), Transpose(J))

\* quaternion::rotate(q, v): v rotated by the unit quaternion q = (a, b, c, d)
rotate(q, v) ==
  LET a == q[1]  b == q[2]  c == q[3]  d == q[4]
      Rm == << <<a*a + b*b - c*c - d*d, 2*(b*c - a*d),         2*(b*d + a*c)>>,
               <<2*(b*c + a*d),         a*a - b*b + c*c - d*d, 2*(c*d - a*b)>>,
               <<2*(b*d - a*c),         2*(c*d + a*b),         a*a - b*b - c*c + d*d>> >>
  IN  [i \in 1..3 |-> Rm[i][1] * v[1] + Rm[i][2] * v[2] + Rm[i][3] * v[3]]

\* quaternion::rotate_by_dq(q, v, VR_q): Jacobian of rotate(q, v) wrt q (3x4)
rotate_by_dq(q, v) ==
  LET a == q[1]  b == q[2]  c == q[3]  d == q[4]
      x == v[1]  y == v[2]  z == v[3]
      axdycz == 2 * (a*x - d*y + c*z)
      bxcydz == 2 * (b*x + c*y + d*z)
      cxbyaz == 2 * (c*x - b*y - a*z)
      dxaybz == 2 * (d*x + a*y - b*z)
  IN  << << axdycz, bxcydz, -cxbyaz, -dxaybz>>,
         << dxaybz, cxbyaz,  bxcydz,  axdycz>>,
         <<-cxbyaz, dxaybz, -axdycz,  bxcydz>> >>


\* ------------------------------------------------------------ inputs
AllSensors == {1, 2}

\* the raws the driver produces, raw id i at position i: channels 1..3 (data)
\* and the three channels init and process read as their uncertainty
\* (data(i+1+inns))
RawStream ==
  << [data |-> <<5, 5, 5>>,    var |-> <<1, 1, 1>>],
     [data |-> <<10, 20, 30>>, var |-> <<2, 1400, 1>>],
     [data |-> <<11, 22, 33>>, var |-> <<3, 2, 1500>>],
     [data |-> <<100, 7, 9>>,  var |-> <<10, 9, 0>>],
     [data |-> <<6, 8, 4>>,    var |-> <<1500, 1200, 3>>] >>

\* the oldest raw the driver still holds when the sensor starts
FirstRaws == {1, 2}

\* dataSize() and varianceSize() of the hardware sensors
HardwareSensors ==
  { [dataSize |-> 3, varianceSize |-> 3],
    [dataSize |-> 3, varianceSize |-> 0],
    [dataSize |-> 7, varianceSize |-> 7],
    [dataSize |-> 7, varianceSize |-> 3] }

\* pose.x()[0..3] of the sensor: its lever-arm on the robot
LeverArms == { <<0, 0, 0>>, <<1, 2, 3>> }
\* unit quaternions: identity, half turn about z
Quats == { <<1, 0, 0, 0>>, <<0, 0, 0, 1>> }

InitPosition == RVec(<<7, 8, 9>>)
\* covariance of the robot pose (position 1..3, quaternion 4..7)
InitCov ==
  [i \in 1..7 |-> [j \in 1..7 |->
     IF i = j THEN (IF i <= 3 THEN 4 ELSE 1)
     ELSE IF {i, j} = {1, 4} \/ {i, j} = {5, 6} THEN 1 ELSE 0]]
CorrectedCov ==
  [i \in 1..7 |-> [j \in 1..7 |->
     IF i = j THEN 2 ELSE IF {i, j} = {2, 7} THEN 1 ELSE 0]]

\* the poses an EKF correction may leave in the filter
FilterOutcomes ==
  { [p |-> RVec(<<1, 1, 1>>),  q |-> <<1, 0, 0, 0>>, P |-> CorrectedCov],
    [p |-> RVec(<<2, 0, -1>>), q |-> <<0, 0, 0, 1>>, P |-> InitCov] }

NoHW == [dataSize |-> 0, varianceSize |-> 0]
NoCall == [s |-> 0, id |-> 0, oldest |-> 0, outcome |-> "none", first |-> FALSE, calibrated |-> FALSE,
           peeks |-> 0, fetchBefore |-> 0, fetchAfter |-> 0, bootWrite |-> FALSE,
           submitted |-> <<>>, used |-> <<>>]

\* ------------------------------------------------------------ state
VARIABLES
  sensors,      \* the SensorAbsloc instances attached to the robot
  checkedBuild, \* whether the build checks ublas vector indices
  absolute,     \* per sensor: constructor argument
  use_for_init, \* per sensor: SensorProprioAbstract::use_for_init
  sensorT,      \* per sensor: pose.x()[0..3]
  hw,           \* per sensor: hardwareSensorPtr (its sizes), NoHW = not set
  bufRead,      \* per sensor: the oldest raw id its driver has not released
  inns,         \* per sensor
  hasVar,       \* per sensor
  reading,      \* per sensor: the RawVec member
  measurement,  \* per sensor: [x, P]
  expectation,  \* per sensor: [x, P]
  innovation,   \* per sensor: [x, P]
  EXP_rs,       \* per sensor
  INN_rs,       \* per sensor
  EXP_q,        \* per sensor
  origin,       \* robotPtr()->origin: <<>> while its size() is 0
  poseX,        \* robotPtr()->pose.x(): [p, q]
  poseP,        \* robotPtr()->pose.P() = filter P projected on ia_rs
  calls,        \* per sensor: number of process calls made
  bootstraps,   \* number of calls that initialized the robot (lines 170..196)
  last          \* what the last process call did

vars == <<sensors, checkedBuild, absolute, use_for_init, sensorT, hw, bufRead, inns, hasVar, reading,
          measurement, expectation, innovation, EXP_rs, INN_rs, EXP_q,
          origin, poseX, poseP, calls, bootstraps, last>>

config == <<sensors, checkedBuild, absolute, sensorT>>
members == <<reading, measurement, expectation, innovation, EXP_rs, INN_rs, EXP_q>>
robot == <<origin, poseX, poseP>>


\* ------------------------------------------------------------ construction
\* the state after the constructors: sensors S attached to one robot, no
\* hardware sensor set yet, the robot's origin of size 0
InitWith(S) ==
  /\ sensors = S
  /\ checkedBuild \in BOOLEAN
  /\ absolute \in [AllSensors -> BOOLEAN]
  /\ use_for_init \in [AllSensors -> BOOLEAN]
  /\ sensorT \in [AllSensors -> LeverArms]
  /\ \A s \in AllSensors \ S :
       ~absolute[s] /\ ~use_for_init[s] /\ sensorT[s] = <<0, 0, 0>>
  /\ hw = [s \in AllSensors |-> NoHW]
  /\ bufRead \in [AllSensors -> FirstRaws]
  /\ \A s \in AllSensors \ S : bufRead[s] = 1
  /\ inns = [s \in AllSensors |-> 0]
  /\ hasVar = [s \in AllSensors |-> FALSE]
  /\ reading = [s \in AllSensors |-> [data |-> zero_vec3, var |-> <<0, 0, 0>>]]
  /\ measurement = [s \in AllSensors |-> [x |-> <<>>, P |-> <<>>]]
  /\ expectation = [s \in AllSensors |-> [x |-> <<>>, P |-> <<>>]]
  /\ innovation = [s \in AllSensors |-> [x |-> <<>>, P |-> <<>>]]
  /\ EXP_rs = [s \in AllSensors |-> <<>>]
  /\ INN_rs = [s \in AllSensors |-> <<>>]
  /\ EXP_q = [s \in AllSensors |-> <<>>]
  /\ origin = <<>>
  /\ poseX \in [p : {InitPosition}, q : Quats]
  /\ poseP = InitCov
  /\ calls = [s \in AllSensors |-> 0]
  /\ bootstraps = 0
  /\ last = NoCall

Init == InitWith({1})

\* ------------------------------------------------------------ setHardwareSensor
\* hasVar is only ever raised
HasVarAfter(old, dataSize, varianceSize) == IF varianceSize = dataSize THEN TRUE ELSE old

SetHardwareSensor(s) ==
  /\ s \in sensors
  /\ hw[s] = NoHW
  /\ \E h \in HardwareSensors :
     LET ds == h.dataSize
         vs == h.varianceSize
     IN
       /\ hw' = [hw EXCEPT ![s] = h]
       /\ inns' = [inns EXCEPT ![s] = ds]
       /\ innovation' = [innovation EXCEPT ![s] = [x |-> ZeroVec(ds), P |-> ZeroMat(ds, ds)]]
       /\ measurement' = [measurement EXCEPT ![s] = [x |-> ZeroVec(ds), P |-> ZeroMat(ds, ds)]]
       /\ expectation' = [expectation EXCEPT ![s] = [x |-> ZeroVec(ds), P |-> ZeroMat(ds, ds)]]
       /\ EXP_rs' = [EXP_rs EXCEPT ![s] = ZeroMat(ds, 7)]
       /\ INN_rs' = [INN_rs EXCEPT ![s] = ZeroMat(ds, 7)]
       /\ EXP_q' = [EXP_q EXCEPT ![s] = ZeroMat(ds, 4)]
       /\ hasVar' = [hasVar EXCEPT ![s] = HasVarAfter(hasVar[s], ds, vs)]
  /\ UNCHANGED <<config, use_for_init, bufRead, reading, robot, calls, bootstraps, last>>

\* ------------------------------------------------------------ init(id)
\* getRaw / observeRaw hand the raw over as the RawVec reading
RawReading(smp) == [data |-> RVec(smp.data), var |-> smp.var]

\* first loop: min_var(i) over the window up to the raw with the id (n raws)
RECURSIVE MinVarOver(_, _, _)
MinVarOver(win, i, n) ==
  IF n = 0 THEN MinVarInit
  ELSE LET m == MinVarOver(win, i, n - 1)
       IN  IF win[n].var[i] < m THEN win[n].var[i] ELSE m

\* faulty variant: the band includes its upper edge
InBandClosed(v, m) == v <= 2 * m

\* the test of line 93
InBand(v, m) == v < 2 * m

\* second loop: average(i) and sum_coeffs(i) over the same raws
RECURSIVE AverageOver(_, _, _, _)
AverageOver(win, i, n, m) ==
  IF n = 0 THEN 0
  ELSE AverageOver(win, i, n - 1, m)
       + (IF InBand(win[n].var[i], m) THEN win[n].data[i] * win[n].var[i] ELSE 0)

RECURSIVE SumCoeffsOver(_, _, _, _)
SumCoeffsOver(win, i, n, m) ==
  IF n = 0 THEN 0
  ELSE SumCoeffsOver(win, i, n - 1, m)
       + (IF InBand(win[n].var[i], m) THEN win[n].var[i] ELSE 0)

\* average(i) /= sum_coeffs(i): no guard; the variances are never negative,
\* so a zero sum_coeffs comes with a zero average and the quotient is 0.0/0.0
Quotient(a, c) == IF c = 0 THEN NaN ELSE Norm(a, c)

\* the reading init leaves: the raws 1..k of the window are those up to the id
Calibrate(win, k) ==
  LET min_var == [i \in 1..3 |-> MinVarOver(win, i, k)]
      average == [i \in 1..3 |->
                    Quotient(AverageOver(win, i, k, min_var[i]),
                             SumCoeffsOver(win, i, k, min_var[i]))]
  IN  [data |-> average, var |-> min_var]


\* ------------------------------------------------------------ process(id)
\* line 106: the reading comes from init (peeks only) or from getRaw
AcquiresByInit(ufi) == ufi

\* faulty variant: every reading is taken for the first one
IsFirstAlways(o) == TRUE

\* line 119
IsFirst(o) == Len(o) = 0

\* lines 119..124: an origin of size 0 is resized to 3 and cleared
ResizedOrigin(o) == IF IsFirst(o) THEN zero_vec3 ELSE o

\* the switch of line 131
SupportedSize(n) == n = 3

\* faulty variant: the data channels taken in the order of the axes
MeasurementXUnmapped(rd, o) ==
  << RSub(rd.data[1], o[1]), RSub(rd.data[2], o[2]), RSub(rd.data[3], o[3]) >>

\* lines 141..143
MeasurementX(rd, o) ==
  << RSub(rd.data[2], o[1]), RSub(rd.data[1], o[2]), RSub(rd.data[3], o[3]) >>

\* faulty variant: the uncertainty channels taken in the order of the axes
MeasurementPUnmapped(P, rd) ==
  [P EXCEPT ![1][1] = sqr(rd.var[1]), ![2][2] = sqr(rd.var[2]), ![3][3] = sqr(rd.var[3])]

\* lines 146..148: only the diagonal is written
MeasurementP(P, rd) ==
  [P EXCEPT ![1][1] = sqr(rd.var[2]), ![2][2] = sqr(rd.var[1]), ![3][3] = sqr(rd.var[3])]

\* lines 134..136
ExpectationJac(q, T) == HCat(identity_mat3, rotate_by_dq(q, T))
\* line 138
ExpectationX(p, Tr) == VAdd(p, RVec(Tr))
\* line 139
ExpectationP(P, J) == prod_JPJt(P, J)

\* faulty variant: the Jacobian handed over without the change of sign
InnovationJacSameSign(J) == J

\* faulty variant: the covariance of the expectation left out
InnovationPMeasurementOnly(mP, eP) == mP

\* lines 158..160
InnovationX(mx, ex) == VSub(mx, ex)
InnovationP(mP, eP) == MatAdd(mP, eP)
InnovationJac(J) == MatNeg(J)

\* faulty variant: the relative origin is the measurement, lever-arm forgotten
BootstrapOriginNoLever(abs, mx, Tr) == IF abs THEN zero_vec3 ELSE mx
\* faulty variant: the absolute position is the measurement, lever-arm forgotten
BootstrapPositionNoLever(abs, mx, Tr) == IF abs THEN mx ELSE zero_vec3

\* lines 175 and 188
BootstrapOrigin(abs, mx, Tr) == IF abs THEN zero_vec3 ELSE VSub(mx, RVec(Tr))
\* lines 176 and 189
BootstrapPosition(abs, mx, Tr) == IF abs THEN VSub(mx, RVec(Tr)) ELSE zero_vec3
\* lines 177..178 and 190..191
BootstrapCov(mP, P, J_q) == MatAdd(mP, prod_JPJt(SubMat(P, 4, 7, 4, 7), J_q))

\* faulty variant: every reading initializes the robot
BootstrapsAlways(first) == TRUE

\* faulty variant: the first reading is corrected like any other
BootstrapsNever(first) == FALSE

\* line 167: the first reading initializes, every other one is corrected
Bootstraps(first) == first

\* lines 209..213: the flag is cleared and the raw fetched once the reading
\* has been processed; an exception thrown before leaves both undone
ReleasesAfter(ufi, outcome) == ufi /\ outcome = "ok"
UseForInitAfter(ufi, outcome) == IF ReleasesAfter(ufi, outcome) THEN FALSE ELSE ufi

\* reading.data(i+1+inns) in init (line 82) lies outside the RawVec when the
\* driver has fewer than 3 variance channels: a bounds-checked build throws
\* there, an unchecked one reads what follows (the var channels of the raw)
OutOfRange(h) == h.varianceSize < 3

\* faulty variant: a sensor without variances is processed with the covariance it has
OutcomeWithoutVarianceTest(s) ==
  IF use_for_init[s] /\ OutOfRange(hw[s]) /\ checkedBuild THEN "BadIndex"
  ELSE IF ~SupportedSize(inns[s]) THEN "UnsupportedSize"
  ELSE "ok"

\* how the call ends: "ok", or the exception that leaves it
Outcome(s) ==
  IF use_for_init[s] /\ OutOfRange(hw[s]) /\ checkedBuild THEN "BadIndex"
  ELSE IF ~SupportedSize(inns[s]) THEN "UnsupportedSize"
  ELSE IF ~hasVar[s] THEN "NoVariance"
  ELSE "ok"

\* getRaw(id): the driver releases its raws up to id
ReleasedTo(rp, id) == IF id >= rp THEN id + 1 ELSE rp

\* process(id) with the driver holding the raws bufRead[s]..hi
ProcessCall(s, id, hi, f) ==
  LET win    == SubSeq(RawStream, bufRead[s], hi)
      k      == id - bufRead[s] + 1
      calib  == AcquiresByInit(use_for_init[s])
      out    == Outcome(s)
      rd     == IF calib THEN Calibrate(win, k) ELSE RawReading(win[k])
      first  == IsFirst(origin)
      o1     == ResizedOrigin(origin)
      T      == sensorT[s]
      p      == poseX.p
      q      == poseX.q
      Tr     == rotate(q, T)
      inCase == out \in {"NoVariance", "ok"}
      J_q    == rotate_by_dq(q, T)
      J      == ExpectationJac(q, T)
      ex     == [x |-> ExpectationX(p, Tr), P |-> ExpectationP(poseP, J)]
      mx     == MeasurementX(rd, o1)
      mP     == MeasurementP(measurement[s].P, rd)
      inn    == [x |-> InnovationX(mx, ex.x), P |-> InnovationP(mP, ex.P)]
      Jinn   == InnovationJac(J)
      boot   == out = "ok" /\ Bootstraps(first)
      corr   == out = "ok" /\ ~Bootstraps(first)
      after  == ReleasesAfter(use_for_init[s], out)
  IN
  /\ reading' = [reading EXCEPT ![s] =
        IF out = "BadIndex" THEN RawReading(win[1])
        ELSE IF after THEN RawReading(win[k]) ELSE rd]
  /\ origin' = IF out = "BadIndex" THEN origin
               ELSE IF boot THEN BootstrapOrigin(absolute[s], mx, Tr) ELSE o1
  /\ EXP_q' = IF inCase THEN [EXP_q EXCEPT ![s] = J_q] ELSE EXP_q
  /\ EXP_rs' = IF inCase THEN [EXP_rs EXCEPT ![s] = J] ELSE EXP_rs
  /\ expectation' = IF inCase THEN [expectation EXCEPT ![s] = ex] ELSE expectation
  /\ measurement' =
        IF out = "ok" THEN [measurement EXCEPT ![s] = [x |-> mx, P |-> mP]]
        ELSE IF inCase THEN [measurement EXCEPT ![s].x = mx]
        ELSE measurement
  /\ innovation' = IF out = "ok" THEN [innovation EXCEPT ![s] = inn] ELSE innovation
  /\ INN_rs' = IF out = "ok" THEN [INN_rs EXCEPT ![s] = Jinn] ELSE INN_rs
  /\ poseX' = IF boot THEN [poseX EXCEPT !.p = BootstrapPosition(absolute[s], mx, Tr)]
              ELSE IF corr THEN [p |-> f.p, q |-> f.q]
              ELSE poseX
  /\ poseP' = IF boot THEN SetBlock(poseP, 1, 1, BootstrapCov(mP, poseP, J_q))
              ELSE IF corr THEN f.P
              ELSE poseP
  /\ use_for_init' = [use_for_init EXCEPT ![s] = UseForInitAfter(use_for_init[s], out)]
  /\ bufRead' = IF ~calib \/ after THEN [bufRead EXCEPT ![s] = ReleasedTo(bufRead[s], id)]
                ELSE bufRead
  /\ calls' = [calls EXCEPT ![s] = @ + 1]
  /\ bootstraps' = IF boot THEN bootstraps + 1 ELSE bootstraps
  /\ last' = [s |-> s, id |-> id, oldest |-> bufRead[s], outcome |-> out, first |-> first,
              calibrated |-> calib,
              peeks |-> IF ~calib THEN 0 ELSE IF out = "BadIndex" THEN 1 ELSE 2 * k,
              fetchBefore |-> IF calib THEN 0 ELSE 1,
              fetchAfter |-> IF after THEN 1 ELSE 0,
              bootWrite |-> boot,
              submitted |-> IF corr THEN << [x |-> inn.x, P |-> inn.P, J |-> Jinn] >> ELSE <<>>,
              used |-> IF out = "BadIndex" THEN <<>> ELSE <<rd>>]
  /\ UNCHANGED <<config, hw, inns, hasVar>>

\* the newest raw the driver may hold: at most MaxWin raws at a time
NewestRaws(s) == { hi \in bufRead[s]..Len(RawStream) : hi - bufRead[s] < MaxWin }

\* what correct may leave; it is only called once the origin is set
Corrections == IF IsFirst(origin) THEN {[p |-> poseX.p, q |-> poseX.q, P |-> poseP]}
               ELSE FilterOutcomes

TotalCalls == calls[1] + calls[2]

Process(s) ==
  /\ s \in sensors
  /\ hw[s] # NoHW
  /\ TotalCalls < MaxCalls
  /\ \E hi \in NewestRaws(s), f \in Corrections :
       \E id \in bufRead[s]..hi : ProcessCall(s, id, hi, f)

Next == \E s \in AllSensors : SetHardwareSensor(s) \/ Process(s)

Spec == Init /\ [][Next]_vars


\* two sensors on the one robot, each with its own driver: the first with a
\* lever-arm, the second without, on a robot turned half way about z
InitTwo ==
  /\ InitWith({1, 2})
  /\ ~checkedBuild
  /\ ~use_for_init[1] /\ absolute[2]
  /\ sensorT = << <<1, 2, 3>>, <<0, 0, 0>> >>
  /\ bufRead = <<1, 2>>
  /\ poseX.q = <<0, 0, 0, 1>>

\* the process calls of the two sensors, serialized in any order
SpecTwo == InitTwo /\ [][Next]_vars


\* ------------------------------------------------------------ reading the state
\* a step that is a process call (of sensor last'.s)
IsCall == TotalCalls' = TotalCalls + 1
Called == last.s # 0
\* the rotated lever-arm of sensor s under the current orientation
TrOf(s) == rotate(poseX.q, sensorT[s])
PositionBlock(P) == SubMat(P, 1, 3, 1, 3)

\* ------------------------------------------------------------ claims
\* C1: over any sequence of process calls the origin goes from unset (size 0)
\* to a 3-vector once, in the first call that gets to process its reading
\* (a call that throws inside init never reaches the origin); a set origin is
\* never changed and never unset again.
C1_OriginSetOnce ==
  [][ /\ (Len(origin) # 0 => origin' = origin)
      /\ (IsCall /\ last'.outcome # "BadIndex" => Len(origin') = 3)
      /\ (Len(origin') # 0 /\ Len(origin) = 0 => IsCall) ]_vars

\* a later call of a sensor that bootstrapped a relative, non-zero origin
C1_Witness ==
  /\ calls[1] >= 2 /\ last.outcome = "ok" /\ ~last.first
  /\ ~absolute[1] /\ Len(origin) = 3 /\ origin # zero_vec3

\* C2: a processed reading that finds the origin unset writes position and
\* position covariance directly and submits nothing to correct; a processed
\* reading that finds it set submits its innovation to correct exactly once,
\* whatever the innovation is, and writes nothing directly; a call that fails
\* does neither.
C2_BootstrapOrCorrect ==
  Called =>
    LET s == last.s IN
    /\ last.outcome = "ok" /\ last.first =>
         /\ last.bootWrite /\ last.submitted = <<>>
         /\ poseX.p = BootstrapPosition(absolute[s], measurement[s].x, TrOf(s))
         /\ PositionBlock(poseP) = BootstrapCov(measurement[s].P, poseP, EXP_q[s])
    /\ last.outcome = "ok" /\ ~last.first =>
         /\ ~last.bootWrite /\ Len(last.submitted) = 1
         /\ last.submitted[1] = [x |-> innovation[s].x, P |-> innovation[s].P, J |-> INN_rs[s]]
         /\ [p |-> poseX.p, q |-> poseX.q, P |-> poseP] \in FilterOutcomes
    /\ last.outcome # "ok" => ~last.bootWrite /\ last.submitted = <<>>

\* a corrected reading whose innovation is not even a number: nothing gates it
C2_Witness ==
  /\ last.outcome = "ok" /\ ~last.first /\ Len(last.submitted) = 1
  /\ \E i \in 1..3 : IsNaN(last.submitted[1].x[i])

\* C3: a process call of a sensor whose reading size is not 3 fails with the
\* unsupported-size error and leaves origin (unset or set), pose and
\* covariance as they were, without a correction.
C3_UnsupportedLeavesState ==
  [][ IsCall /\ ~SupportedSize(inns[last'.s]) =>
        /\ last'.outcome = "UnsupportedSize"
        /\ origin' = origin /\ poseX' = poseX /\ poseP' = poseP
        /\ last'.submitted = <<>> ]_vars

\* C4: every process call of a sensor with hasVar = false fails before
\* anything is written to the position or to a covariance and before any
\* correction; no measurement covariance is made up.
C4_NoVarianceFails ==
  [][ IsCall /\ ~hasVar[last'.s] =>
        /\ last'.outcome # "ok"
        /\ poseX' = poseX /\ poseP' = poseP
        /\ measurement'[last'.s].P = measurement[last'.s].P
        /\ last'.submitted = <<>> /\ ~last'.bootWrite ]_vars

\* a 3-channel sensor without variances reached the variance test and threw
C4_Witness == last.outcome = "NoVariance" /\ ~hasVar[last.s] /\ inns[last.s] = 3


\* the reading a call processed, and its channels mapped to axes 0, 1, 2
Used == last.used[1]
Reordered(d) == <<d[2], d[1], d[3]>>
BootstrapDone == Called /\ last.outcome = "ok" /\ last.first

\* C5 (as stated): with absolute = false the bootstrap call leaves origin =
\* Measurement.mean, the reordered reading itself, for every lever-arm and
\* orientation, and the position at zero.
C5_OriginIsMeasurement ==
  BootstrapDone /\ ~absolute[last.s] =>
    /\ measurement[last.s].x = Reordered(Used.data)
    /\ origin = measurement[last.s].x
    /\ poseX.p = zero_vec3

\* C5 (amended): with absolute = false the bootstrap call leaves origin =
\* Measurement.mean - rotate(q, T), which is Measurement.mean itself when the
\* lever-arm is zero, and the position at zero; the reading (5,5,5) with
\* T = 0 and the identity quaternion gives origin (5,5,5), position (0,0,0).
C5_OriginIsMeasurementLessLever ==
  BootstrapDone /\ ~absolute[last.s] =>
    LET s == last.s IN
    /\ measurement[s].x = Reordered(Used.data)
    /\ origin = VSub(measurement[s].x, RVec(TrOf(s)))
    /\ poseX.p = zero_vec3
    /\ sensorT[s] = <<0, 0, 0>> => origin = measurement[s].x
    /\ Used.data = RVec(<<5, 5, 5>>) /\ sensorT[s] = <<0, 0, 0>> /\ poseX.q = <<1, 0, 0, 0>> =>
         origin = RVec(<<5, 5, 5>>) /\ poseX.p = RVec(<<0, 0, 0>>)

\* a relative bootstrap with a lever-arm, turned by the orientation
C5_Witness ==
  /\ BootstrapDone /\ ~absolute[last.s]
  /\ sensorT[last.s] = <<1, 2, 3>> /\ poseX.q = <<0, 0, 0, 1>>
  /\ Used.data = RVec(<<10, 20, 30>>)
  /\ origin = RVec(<<21, 12, 27>>)

C5_Example ==
  /\ BootstrapDone /\ ~absolute[last.s]
  /\ Used.data = RVec(<<5, 5, 5>>) /\ sensorT[last.s] = <<0, 0, 0>> /\ poseX.q = <<1, 0, 0, 0>>

\* C6: with absolute = true the bootstrap call leaves the origin at zero and
\* the position at Measurement.mean - rotate(q, T), for every lever-arm and
\* orientation; the reading (5,5,5) with T = 0 and the identity quaternion
\* gives origin (0,0,0), position (5,5,5).
C6_AbsoluteBootstrap ==
  BootstrapDone /\ absolute[last.s] =>
    LET s == last.s IN
    /\ measurement[s].x = Reordered(Used.data)
    /\ origin = zero_vec3
    /\ poseX.p = VSub(measurement[s].x, RVec(TrOf(s)))
    /\ Used.data = RVec(<<5, 5, 5>>) /\ sensorT[s] = <<0, 0, 0>> /\ poseX.q = <<1, 0, 0, 0>> =>
         origin = RVec(<<0, 0, 0>>) /\ poseX.p = RVec(<<5, 5, 5>>)

\* an absolute bootstrap with a lever-arm, turned by the orientation
C6_Witness ==
  /\ BootstrapDone /\ absolute[last.s]
  /\ sensorT[last.s] = <<1, 2, 3>> /\ poseX.q = <<0, 0, 0, 1>>
  /\ Used.data = RVec(<<10, 20, 30>>)
  /\ poseX.p = RVec(<<21, 12, 27>>)

C6_Example ==
  /\ BootstrapDone /\ absolute[last.s]
  /\ Used.data = RVec(<<5, 5, 5>>) /\ sensorT[last.s] = <<0, 0, 0>> /\ poseX.q = <<1, 0, 0, 0>>

\* C7: every process call releases its reading by a getRaw: a call that does
\* not calibrate fetches the id once before processing, a calibrating call
\* only peeks and then fetches the id once after processing; no call ends,
\* normally or by an exception, with its raw still held by the driver.
C7_ReadingReleased ==
  Called =>
    /\ IF last.calibrated
       THEN last.peeks > 0 /\ last.fetchBefore = 0 /\ last.fetchAfter = 1
       ELSE last.peeks = 0 /\ last.fetchBefore = 1 /\ last.fetchAfter = 0
    /\ bufRead[last.s] > last.id

\* C8: a sensor with use_for_init calibrates on its first process call and on
\* no other; the calibrated reading is the one the bootstrap consumes and is
\* never submitted to correct; every other call processes the raw it fetched.
C8_CalibratesFirstOnly ==
  [][ IsCall =>
        LET s == last'.s IN
        /\ last'.calibrated => calls[s] = 0
        /\ last'.calibrated /\ last'.outcome = "ok" =>
             last'.bootWrite /\ last'.submitted = <<>>
        /\ ~last'.calibrated => last'.used = <<RawReading(RawStream[last'.id])>> ]_vars

\* sum_coeffs of axis i for the window lo..id
WeightSum(i, lo, id) ==
  LET win == SubSeq(RawStream, lo, id)
  IN  SumCoeffsOver(win, i, Len(win), MinVarOver(win, i, Len(win)))

\* C9: a calibration whose window leaves the weight sum of some axis at 0
\* fails instead of dividing by it and bootstrapping from the quotient.
C9_DegenerateWindowFails ==
  Called /\ last.calibrated /\ last.outcome # "BadIndex"
         /\ (\E i \in 1..3 : WeightSum(i, last.oldest, last.id) = 0)
    => last.outcome # "ok" /\ ~last.bootWrite

\* the least variance the raws lo..id report on channel i
MinReported(i, lo, id) ==
  LET S == { RawStream[j].var[i] : j \in lo..id }
  IN  CHOOSE m \in S : \A v \in S : m <= v

\* C10: the variance of the calibrated reading is, on each axis, the least
\* variance reported on that axis by the raws of the window up to the id,
\* whatever its magnitude.
C10_CalibratedVarianceIsMin ==
  Called /\ last.calibrated /\ last.outcome = "ok" =>
    \A i \in 1..3 : Used.var[i] = MinReported(i, last.oldest, last.id)

\* the raws of the window lo..id that lie in the band of axis i: their
\* variance is strictly below twice the minVar the calibrated reading carries
Inliers(i, lo, id) == { j \in lo..id : RawStream[j].var[i] < 2 * Used.var[i] }

\* sum over the raws J of variance (weight) or of value * variance on axis i
RECURSIVE SumOfRaws(_, _, _)
SumOfRaws(J, i, weighted) ==
  IF J = {} THEN 0
  ELSE LET j == CHOOSE x \in J : TRUE
       IN  (IF weighted THEN RawStream[j].data[i] * RawStream[j].var[i] ELSE RawStream[j].var[i])
           + SumOfRaws(J \ {j}, i, weighted)

\* C11: the value of the calibrated reading is, on each axis independently,
\* (sum of value * variance) / (sum of variance) over exactly the raws of the
\* window whose variance on that axis is strictly below 2 * minVar[axis]
\* (0.0/0.0 when no weight is left); the raws with variances 2, 3, 10 (the
\* stated 1.0, 1.5, 5.0 in half units) and values 10, 11, 100 leave out the
\* third and give mean 53/5 = 10.6 with the least variance as variance.
C11_WeightedInlierMean ==
  Called /\ last.calibrated /\ last.outcome # "BadIndex" =>
    /\ \A i \in 1..3 :
         LET J   == Inliers(i, last.oldest, last.id)
             num == SumOfRaws(J, i, TRUE)
             den == SumOfRaws(J, i, FALSE)
         IN  IF den = 0 THEN IsNaN(Used.data[i]) ELSE Used.data[i] = Norm(num, den)
    /\ last.oldest = 2 /\ last.id = 4 =>
         /\ Inliers(1, 2, 4) = {2, 3}
         /\ Used.data[1] = <<53, 5>> /\ Used.var[1] = 2

\* the calibration over raws 2..4, and one whose window holds a raw exactly
\* on the edge of the band (variance 2 against minVar 1 on axis 0)
C11_Witness ==
  /\ Called /\ last.calibrated /\ last.outcome = "ok"
  /\ last.oldest = 2 /\ last.id = 4
  /\ Used.data[1] = <<53, 5>>
  /\ Inliers(2, 2, 4) # 2..4 /\ Inliers(3, 2, 4) # Inliers(2, 2, 4)

C11_EdgeOfBand ==
  /\ Called /\ last.calibrated /\ last.outcome = "ok"
  /\ last.oldest = 1 /\ last.id = 2
  /\ RawStream[2].var[1] = 2 * Used.var[1]
  /\ Used.data[1] = R(5)

\* C12: after every processed 3-channel reading of a sensor with hasVar, in
\* any sequence of calls, Measurement.cov is diagonal and its entry of axis k
\* is the square of the uncertainty channel of the reading that goes with the
\* data channel of axis k (channels 2, 1, 3 for axes 0, 1, 2).
C12_MeasurementCovDiagonal ==
  Called /\ last.outcome = "ok" =>
    LET s == last.s
        u == Reordered(Used.var)
    IN  /\ inns[s] = 3 /\ hasVar[s]
        /\ \A i, j \in 1..3 :
             measurement[s].P[i][j] = IF i = j THEN u[i] * u[i] ELSE 0

\* a later call of a sensor, whose reading differs from the one before on
\* the channels of axes 0 and 1
C12_Witness ==
  /\ Called /\ last.outcome = "ok" /\ calls[last.s] >= 2
  /\ Used.var[1] # Used.var[2]
  /\ measurement[last.s].P[1][1] # measurement[last.s].P[2][2]

\* C13: the Jacobian every call hands to correct is the elementwise negation
\* of the expectation Jacobian of that very reading: minus the identity wrt
\* the position, minus rotate_by_dq(q, T) wrt the quaternion, with q the
\* orientation the call found; and it is what EXP_rs holds after the call.
C13_JacobianNegated ==
  [][ IsCall /\ last'.submitted # <<>> =>
        LET s   == last'.s
            J   == last'.submitted[1].J
            J_q == rotate_by_dq(poseX.q, sensorT[s])
        IN  /\ Len(last'.submitted) = 1
            /\ \A i \in 1..3 :
                 /\ \A j \in 1..3 : J[i][j] = IF i = j THEN -1 ELSE 0
                 /\ \A j \in 4..7 : J[i][j] = -J_q[i][j - 3]
            /\ \A i \in 1..3 : \A j \in 1..7 : J[i][j] = -EXP_rs'[s][i][j]
            /\ INN_rs'[s] = J ]_vars

\* a third call of a sensor with a lever-arm: the correction before it has
\* turned the robot, the Jacobian of the call before is not the one submitted
C13_Witness ==
  /\ Called /\ Len(last.submitted) = 1 /\ calls[last.s] >= 3
  /\ sensorT[last.s] = <<1, 2, 3>>
  /\ \E j \in 4..7 : last.submitted[1].J[1][j] # 0

\* C14: the innovation every non-bootstrap call hands to correct has mean
\* Measurement.mean - Expectation.mean and covariance Measurement.cov +
\* Expectation.cov, elementwise, with the measurement and the expectation the
\* call computed from its own reading and from the pose it found.
C14_InnovationIsDifference ==
  [][ IsCall /\ last'.submitted # <<>> =>
        LET s   == last'.s
            sub == last'.submitted[1]
            m   == measurement'[s]
            e   == expectation'[s]
            J_q == rotate_by_dq(poseX.q, sensorT[s])
        IN  /\ \A i \in 1..3 : sub.x[i] = RSub(m.x[i], e.x[i])
            /\ \A i, j \in 1..3 : sub.P[i][j] = m.P[i][j] + e.P[i][j]
            /\ innovation'[s] = [x |-> sub.x, P |-> sub.P]
            /\ \A i \in 1..3 : m.x[i] = RSub(Reordered(last'.used[1].data)[i], origin[i])
            /\ e.x = VAdd(poseX.p, RVec(rotate(poseX.q, sensorT[s])))
            /\ e.P = prod_JPJt(poseP, HCat(identity_mat3, J_q)) ]_vars

\* a submitted innovation, all numbers, whose mean and covariance are
\* neither those of the measurement nor those of the expectation
C14_Witness ==
  /\ Called /\ Len(last.submitted) = 1
  /\ \A i \in 1..3 : ~IsNaN(last.submitted[1].x[i])
  /\ last.submitted[1].x # measurement[last.s].x
  /\ last.submitted[1].P # measurement[last.s].P
  /\ last.submitted[1].P # expectation[last.s].P
  /\ \E i, j \in 1..3 : i # j /\ last.submitted[1].P[i][j] # 0

\* C15: every call that processes a 3-channel reading leaves Measurement.mean
\* on axes 0, 1, 2 at the data channels 2, 1, 3 of the reading less the
\* origin in force: the zero vector in a call that finds the origin unset,
\* the origin it finds in every other call; a call that does not calibrate
\* reads the channels of the raw with its id.
C15_MeasurementLessOrigin ==
  [][ IsCall /\ last'.outcome \in {"ok", "NoVariance"} =>
        LET s  == last'.s
            rd == last'.used[1]
            o  == IF Len(origin) = 0 THEN <<R(0), R(0), R(0)>> ELSE origin
        IN  /\ measurement'[s].x[1] = RSub(rd.data[2], o[1])
            /\ measurement'[s].x[2] = RSub(rd.data[1], o[2])
            /\ measurement'[s].x[3] = RSub(rd.data[3], o[3])
            /\ ~last'.calibrated => rd.data = RVec(RawStream[last'.id].data)
            /\ last'.outcome = "ok" /\ Len(origin) # 0 => last'.submitted[1].x =
                 VSub(measurement'[s].x, expectation'[s].x) ]_vars

\* a later call under an origin that is not zero, reading a raw whose
\* channels 1 and 2 differ
C15_Witness ==
  /\ Called /\ last.outcome = "ok" /\ ~last.first /\ ~last.calibrated
  /\ origin # zero_vec3 /\ ~IsNaN(origin[1])
  /\ Used.data[1] # Used.data[2]
  /\ measurement[last.s].x = VSub(Reordered(Used.data), origin)
  /\ measurement[last.s].x # Reordered(Used.data)

\* the innovation mean a call of sensor s computes from the reading rd in
\* the current state (lines 138..143, 158)
InnovationOf(s, rd) ==
  InnovationX(MeasurementX(rd, origin), ExpectationX(poseX.p, TrOf(s)))

\* C16: under either policy and for every lever-arm and orientation, the
\* reading the bootstrap consumed, processed again right after it with the
\* pose the bootstrap left, has Measurement.mean = Expectation.mean =
\* position + rotate(q, T): its innovation mean is the zero vector.
C16_BootstrapConsistent ==
  BootstrapDone =>
    LET s == last.s IN
    /\ MeasurementX(Used, origin) = ExpectationX(poseX.p, TrOf(s))
    /\ InnovationOf(s, Used) = zero_vec3

\* the same for the bootstraps from a reading that holds numbers only
C16_ConsistentOnNumbers ==
  BootstrapDone /\ (\A i \in 1..3 : ~IsNaN(Used.data[i])) =>
    InnovationOf(last.s, Used) = zero_vec3

C16_NumbersAbsolute ==
  /\ BootstrapDone /\ absolute[last.s] /\ sensorT[last.s] = <<1, 2, 3>>
  /\ poseX.q = <<0, 0, 0, 1>> /\ \A i \in 1..3 : ~IsNaN(Used.data[i])

C16_NumbersRelative ==
  /\ BootstrapDone /\ ~absolute[last.s] /\ sensorT[last.s] = <<1, 2, 3>>
  /\ poseX.q = <<0, 0, 0, 1>> /\ \A i \in 1..3 : ~IsNaN(Used.data[i])

\* C17: in every reachable state a set origin implies that a bootstrap has
\* completed (position and position covariance written by the bootstrap),
\* and a reading is handed to correct only on a robot that was bootstrapped,
\* also after a first process call that failed.
C17_OriginImpliesBootstrap ==
  /\ Len(origin) # 0 => bootstraps >= 1
  /\ Called /\ last.submitted # <<>> => bootstraps >= 1

\* two sensors: the first call overall, of a sensor whose reading has 7
\* channels, failed; the first call of the other sensor then went to correct
\* on a robot no call has bootstrapped
C17_CorrectWithoutBootstrap ==
  /\ bootstraps = 0 /\ TotalCalls = 2
  /\ calls[1] = 1 /\ inns[1] = 7
  /\ Called /\ last.s = 2 /\ last.outcome = "ok" /\ Len(last.submitted) = 1

\* C18: a call that finds the origin unset (the bootstrap call) writes, of
\* the state of the robot, only the origin, the 3 position components and
\* the 3x3 position block of the pose covariance: quaternion, orientation
\* block and position-orientation cross-covariance stay as they were and
\* nothing goes to correct; every other call leaves the origin alone and
\* writes pose and covariance not at all, or only by what correct leaves.
C18_BootstrapFrame ==
  [][ IsCall =>
        /\ Len(origin) = 0 =>
             /\ poseX'.q = poseX.q
             /\ \A i, j \in 1..7 : i > 3 \/ j > 3 => poseP'[i][j] = poseP[i][j]
             /\ last'.submitted = <<>>
             /\ ~last'.bootWrite => poseX' = poseX /\ poseP' = poseP
        /\ Len(origin) # 0 =>
             /\ origin' = origin
             /\ ~last'.bootWrite
             /\ IF last'.submitted = <<>>
                THEN poseX' = poseX /\ poseP' = poseP
                ELSE [p |-> poseX'.p, q |-> poseX'.q, P |-> poseP'] \in FilterOutcomes ]_vars

\* a bootstrap that has changed origin, position and position block on a
\* robot whose covariance couples position and orientation
C18_Witness ==
  /\ BootstrapDone /\ origin # zero_vec3
  /\ poseX.p # InitPosition /\ poseX.q = <<0, 0, 0, 1>>
  /\ PositionBlock(poseP) # PositionBlock(InitCov)
  /\ poseP[1][4] = 1 /\ poseP[4][1] = 1 /\ poseP[5][6] = 1

\* a later call that went through correct
C18_LaterCall ==
  /\ Called /\ ~last.first /\ Len(last.submitted) = 1 /\ bootstraps = 1

\* what C19 says of a completed call of sensor s, as a step
OneBootstrapStep(s) ==
  /\ bootstraps' = 1
  /\ last'.bootWrite <=> TotalCalls = 0
  /\ last'.bootWrite => Len(origin) = 0 /\ Len(origin') = 3
  /\ TotalCalls > 0 =>
       /\ Len(origin) = 3 /\ origin' = origin
       /\ Len(last'.submitted) = 1
       /\ measurement'[s].x = VSub(Reordered(last'.used[1].data), origin)
       /\ last'.submitted[1].x = VSub(measurement'[s].x, expectation'[s].x)

\* C19: with two sensors on the same robot and their calls serialized in any
\* order, exactly one call bootstraps and sets the origin, the first one
\* overall; every reading processed after it, the first of the other sensor
\* included, finds the origin set, writes no bootstrap, leaves the origin as
\* it is and goes to correct with its measurement taken relative to it.
C19_OneBootstrapForTwo ==
  [][ IsCall /\ last'.outcome = "ok" => OneBootstrapStep(last'.s) ]_vars

\* the same for the runs whose first call overall completes
C19_WhenFirstCallCompletes ==
  [][ IsCall /\ last'.outcome = "ok" /\ (TotalCalls > 0 => bootstraps = 1)
        => OneBootstrapStep(last'.s) ]_vars

\* the first reading of sensor 2, calibrated, after sensor 1 has bootstrapped
\* a relative origin
C19_OtherSensorCorrected ==
  /\ Called /\ last.s = 2 /\ calls[2] = 1 /\ calls[1] >= 1 /\ bootstraps = 1
  /\ last.outcome = "ok" /\ last.calibrated /\ Len(last.submitted) = 1
  /\ ~absolute[1] /\ origin # zero_vec3

====
